---- MODULE Spec2Model ----
(***************************************************************************)
(* Model of the Smart Expense Tracker (expense_tracker.py).                *)
(*                                                                         *)
(* Text is modelled as a sequence of one-character strings wherever the    *)
(* program looks inside it (dates, amounts written to a file); category,   *)
(* vendor and description are only compared as wholes and stay strings.    *)
(* Amounts are exact multiples of 0.01, held as an integer number of       *)
(* hundredths.  A backing file is modelled by its parsed shape: absent,    *)
(* a header line followed by rows of cells, an array of objects, or text   *)
(* that is neither.                                                        *)
(***************************************************************************)
EXTENDS Integers, Sequences, FiniteSets, TLC

VARIABLES storage_format, file, expenses, constructed, ret

vars == <<storage_format, file, expenses, constructed, ret>>

\* ret before any operation was called
NoCall == [op |-> "init"]

(*************************** bounds of the model ***************************)
MaxExpenses == 2

\* tokens in a receipt text the parsers are applied to
MaxTokens == 2

\* store instances that can be open on the backing file
Trackers == {1, 2}

(****************************** characters ********************************)
DigitChars == <<"0", "1", "2", "3", "4", "5", "6", "7", "8", "9">>

IsDigit(c) == \E i \in 1..10 : DigitChars[i] = c

DigitVal(c) == (CHOOSE i \in 1..10 : DigitChars[i] = c) - 1

\* code point of the characters that occur in the model's texts
CharCode(c) ==
    IF IsDigit(c) THEN 48 + DigitVal(c)
    ELSE IF c = " " THEN 32
    ELSE IF c = "+" THEN 43
    ELSE IF c = "-" THEN 45
    ELSE IF c = "." THEN 46
    ELSE IF c = "/" THEN 47
    ELSE 120

\* Python's < on str: lexicographic by code point, a proper prefix is smaller
RECURSIVE StrLess(_, _)
StrLess(a, b) ==
    IF b = <<>> THEN FALSE
    ELSE IF a = <<>> THEN TRUE
    ELSE IF CharCode(Head(a)) # CharCode(Head(b))
         THEN CharCode(Head(a)) < CharCode(Head(b))
    ELSE StrLess(Tail(a), Tail(b))

StrLeq(a, b) == a = b \/ StrLess(a, b)

AllDigits(s) == \A i \in 1..Len(s) : IsDigit(s[i])

RECURSIVE DigitsToNat(_)
DigitsToNat(s) ==
    IF s = <<>> THEN 0
    ELSE 10 * DigitsToNat(SubSeq(s, 1, Len(s) - 1)) + DigitVal(s[Len(s)])

RECURSIVE NatToDigits(_)
NatToDigits(n) ==
    IF n < 10 THEN <<DigitChars[n + 1]>>
    ELSE NatToDigits(n \div 10) \o <<DigitChars[(n % 10) + 1]>>

(**************************** absent values *******************************)
\* Python's None, for a text argument and for a string argument
None == <<"None">>

NoneStr == "None"

\* truth value of an optional text / string argument ("if start_date:")
Truthy(x) == x # None /\ x # <<>>

TruthyStr(x) == x # NoneStr /\ x # ""

(******************************* categories *******************************)
EXPENSE_CATEGORIES ==
    <<"Food & Dining", "Transportation", "Shopping", "Entertainment",
      "Bills & Utilities", "Healthcare", "Travel", "Education",
      "Business", "Personal Care", "Groceries", "Gas", "Other">>

InCategories(c) == \E i \in 1..Len(EXPENSE_CATEGORIES) : EXPENSE_CATEGORIES[i] = c

(************************* datetime.strptime ******************************)
IsLeap(y) == (y % 4 = 0 /\ y % 100 # 0) \/ y % 400 = 0

DaysInMonth(y, m) ==
    IF m = 2 THEN (IF IsLeap(y) THEN 29 ELSE 28)
    ELSE IF m \in {4, 6, 9, 11} THEN 30
    ELSE 31

\* the month field of the format: 1[0-2] | 0[1-9] | [1-9]
MonthToken(s) ==
    \/ Len(s) = 2 /\ s[1] = "1" /\ s[2] \in {"0", "1", "2"}
    \/ Len(s) = 2 /\ s[1] = "0" /\ IsDigit(s[2]) /\ s[2] # "0"
    \/ Len(s) = 1 /\ IsDigit(s[1]) /\ s[1] # "0"

\* the day field of the format: 3[01] | [12]\d | 0[1-9] | [1-9] | " "[1-9]
DayToken(s) ==
    \/ Len(s) = 2 /\ s[1] = "3" /\ s[2] \in {"0", "1"}
    \/ Len(s) = 2 /\ s[1] \in {"1", "2"} /\ IsDigit(s[2])
    \/ Len(s) = 2 /\ s[1] \in {"0", " "} /\ IsDigit(s[2]) /\ s[2] # "0"
    \/ Len(s) = 1 /\ IsDigit(s[1]) /\ s[1] # "0"

TokenVal(s) == IF s[1] = " " THEN DigitVal(s[2]) ELSE DigitsToNat(s)

NoDate == [ok |-> FALSE, y |-> 0, m |-> 0, d |-> 0]

\* the text after the year and its dash, split at the next dash
MonthPart(r) ==
    IF Len(r) >= 2 /\ r[2] = "-" THEN SubSeq(r, 1, 1)
    ELSE IF Len(r) >= 3 /\ r[3] = "-" THEN SubSeq(r, 1, 2)
    ELSE <<>>

\* datetime.strptime(s, "%Y-%m-%d"): the whole text must match
\* (\d{4})-(month)-(day) and name a day of the calendar (year 1..9999)
strptime(s) ==
    IF s = None \/ Len(s) < 8 \/ ~AllDigits(SubSeq(s, 1, 4)) \/ s[5] # "-"
    THEN NoDate
    ELSE
      LET r  == SubSeq(s, 6, Len(s))
          mt == MonthPart(r)
          dt == SubSeq(r, Len(mt) + 2, Len(r))
      IN  IF mt = <<>> \/ ~MonthToken(mt) \/ dt = <<>> \/ ~DayToken(dt)
          THEN NoDate
          ELSE
            LET y == DigitsToNat(SubSeq(s, 1, 4))
                m == TokenVal(mt)
                d == TokenVal(dt)
            IN  IF y < 1 \/ d > DaysInMonth(y, m) THEN NoDate
                ELSE [ok |-> TRUE, y |-> y, m |-> m, d |-> d]

\* order of two datetime values
DateLeq(a, b) ==
    \/ a.y < b.y
    \/ a.y = b.y /\ a.m < b.m
    \/ a.y = b.y /\ a.m = b.m /\ a.d <= b.d

\* datetime.now().strftime("%Y-%m-%d")
Today == <<"2", "0", "2", "4", "-", "0", "6", "-", "1", "5">>

(************************** float() and str() ******************************)
RECURSIVE LStrip(_)
LStrip(s) == IF s # <<>> /\ Head(s) = " " THEN LStrip(Tail(s)) ELSE s

RECURSIVE RStrip(_)
RStrip(s) ==
    IF s # <<>> /\ s[Len(s)] = " " THEN RStrip(SubSeq(s, 1, Len(s) - 1)) ELSE s

\* position of the first "." of a text, 0 when it has none
DotIndex(s) ==
    IF \E i \in 1..Len(s) : s[i] = "."
    THEN CHOOSE i \in 1..Len(s) : s[i] = "." /\ \A j \in 1..(i - 1) : s[j] # "."
    ELSE 0

NoFloat == [ok |-> FALSE, v |-> 0]

\* float(text) for decimal texts: surrounding blanks are dropped, then an
\* optional sign, digits and an optional fraction (at most two fraction
\* digits are representable here); anything else raises ValueError
float(s) ==
    LET t    == RStrip(LStrip(s))
        neg  == t # <<>> /\ Head(t) = "-"
        body == IF t # <<>> /\ Head(t) \in {"-", "+"} THEN Tail(t) ELSE t
        dot  == DotIndex(body)
        ip   == IF dot = 0 THEN body ELSE SubSeq(body, 1, dot - 1)
        fp   == IF dot = 0 THEN <<>> ELSE SubSeq(body, dot + 1, Len(body))
        frac == IF Len(fp) = 0 THEN 0
                ELSE IF Len(fp) = 1 THEN 10 * DigitVal(fp[1])
                ELSE DigitsToNat(fp)
        mag  == 100 * DigitsToNat(ip) + frac
    IN  IF s = None \/ ~AllDigits(ip) \/ ~AllDigits(fp)
           \/ Len(ip) + Len(fp) = 0 \/ Len(fp) > 2
        THEN NoFloat
        ELSE [ok |-> TRUE, v |-> IF neg THEN 0 - mag ELSE mag]

\* str(x) of a float, as csv.writer and json.dump write it: the shortest
\* text that reads back as x, with at least one fraction digit
FloatStr(v) ==
    LET mag  == IF v < 0 THEN 0 - v ELSE v
        frac == mag % 100
        fd   == IF frac % 10 = 0 THEN <<DigitChars[(frac \div 10) + 1]>>
                ELSE <<DigitChars[(frac \div 10) + 1], DigitChars[(frac % 10) + 1]>>
    IN  (IF v < 0 THEN <<"-">> ELSE <<>>) \o NatToDigits(mag \div 100) \o <<".">> \o fd

(******************************* the store ********************************)
\* the dict built by add_expense; extra marks a dict that carries a key
\* beyond the five field names (csv.DictReader's restkey)
Expense(date, amount, category, vendor, description) ==
    [date |-> date, amount |-> amount, category |-> category,
     vendor |-> vendor, description |-> description, extra |-> FALSE]

AbsentFile == [kind |-> "absent", rows |-> <<>>]

\* one line of the tabular file / one object of the document file, as text
RowOf(exp) ==
    [date |-> exp.date, amount |-> FloatStr(exp.amount), category |-> exp.category,
     vendor |-> exp.vendor, description |-> exp.description, extra |-> exp.extra]

\* the dict read back from one row: amount converted by float()
DictOf(row) ==
    [date |-> row.date, amount |-> float(row.amount).v, category |-> row.category,
     vendor |-> row.vendor, description |-> row.description, extra |-> row.extra]

\* _load_from_csv: the list is emptied, then rows are appended one at a time;
\* float() raising (or a row without an amount column) stops the loop and
\* leaves the rows read so far in the list
RECURSIVE LoadRows(_, _)
LoadRows(rows, acc) ==
    IF rows = <<>> THEN [raised |-> FALSE, expenses |-> acc]
    ELSE IF ~float(Head(rows).amount).ok THEN [raised |-> TRUE, expenses |-> acc]
    ELSE LoadRows(Tail(rows), Append(acc, DictOf(Head(rows))))

_load_from_csv(f, cur) ==
    IF f.kind = "csv" THEN LoadRows(f.rows, <<>>)
    ELSE IF f.kind = "json" /\ f.rows # <<>>
         THEN [raised |-> TRUE, expenses |-> <<>>]     \* KeyError: 'amount'
    ELSE [raised |-> FALSE, expenses |-> <<>>]         \* a header line only

\* _load_from_json: json.load either yields the whole array or raises
_load_from_json(f, cur) ==
    IF f.kind = "json" /\ \A i \in 1..Len(f.rows) : float(f.rows[i].amount).ok
    THEN [raised |-> FALSE, expenses |-> [i \in 1..Len(f.rows) |-> DictOf(f.rows[i])]]
    ELSE [raised |-> TRUE, expenses |-> cur]

_load_expenses_NoReset(fmt, f, cur) ==
    IF f.kind = "absent" THEN <<>>
    ELSE LET r == IF fmt = "csv" THEN _load_from_csv(f, cur)
                  ELSE IF fmt = "json" THEN _load_from_json(f, cur)
                  ELSE [raised |-> TRUE, expenses |-> cur]
         IN  r.expenses

\* _load_expenses: any exception of the readers is caught and the list reset
_load_expenses(fmt, f, cur) ==
    IF f.kind = "absent" THEN <<>>
    ELSE LET r == IF fmt = "csv" THEN _load_from_csv(f, cur)
                  ELSE IF fmt = "json" THEN _load_from_json(f, cur)
                  ELSE [raised |-> TRUE, expenses |-> cur]
         IN  IF r.raised THEN <<>> ELSE r.expenses

\* the rows csv.DictWriter.writerows gets onto the file: it raises ValueError
\* at the first dict with a key outside fieldnames, after the rows before it
RECURSIVE WrittenRows(_)
WrittenRows(exps) ==
    IF exps = <<>> \/ Head(exps).extra THEN <<>>
    ELSE <<RowOf(Head(exps))>> \o WrittenRows(Tail(exps))

\* _save_to_csv: nothing for an empty list, else the file is truncated and
\* rewritten
_save_to_csv(exps, f) ==
    IF exps = <<>> THEN f
    ELSE [kind |-> "csv", rows |-> WrittenRows(exps)]

_save_to_json(exps, f) ==
    [kind |-> "json", rows |-> [i \in 1..Len(exps) |-> RowOf(exps[i])]]

\* _save_expenses: an exception of the writers is caught and printed
_save_expenses(fmt, exps, f) ==
    IF fmt = "csv" THEN _save_to_csv(exps, f)
    ELSE IF fmt = "json" THEN _save_to_json(exps, f)
    ELSE f

(****************************** add_expense *******************************)
NoError == ""

ErrAmount == "Amount cannot be negative"

ErrCategory == "Invalid category"

ErrDate == "Date must be in YYYY-MM-DD format"

NoExpense == Expense(<<>>, 0, "", "", "")

\* add_expense with the amount check written as amount <= 0
add_expense_RejectsZero(fmt, exps, f, amount, category, vendor, description, date) ==
    IF amount <= 0
    THEN [raised |-> ErrAmount, value |-> NoExpense, expenses |-> exps, file |-> f]
    ELSE IF ~InCategories(category)
    THEN [raised |-> ErrCategory, value |-> NoExpense, expenses |-> exps, file |-> f]
    ELSE IF date # None /\ ~strptime(date).ok
    THEN [raised |-> ErrDate, value |-> NoExpense, expenses |-> exps, file |-> f]
    ELSE
      LET expense == Expense(IF date = None THEN Today ELSE date,
                             amount, category, vendor, description)
          appended == Append(exps, expense)
      IN  [raised |-> NoError, value |-> expense, expenses |-> appended,
           file |-> _save_expenses(fmt, appended, f)]

\* add_expense with the category check placed before the amount check
add_expense_CategoryFirst(fmt, exps, f, amount, category, vendor, description, date) ==
    IF ~InCategories(category)
    THEN [raised |-> ErrCategory, value |-> NoExpense, expenses |-> exps, file |-> f]
    ELSE IF amount < 0
    THEN [raised |-> ErrAmount, value |-> NoExpense, expenses |-> exps, file |-> f]
    ELSE IF date # None /\ ~strptime(date).ok
    THEN [raised |-> ErrDate, value |-> NoExpense, expenses |-> exps, file |-> f]
    ELSE
      LET expense == Expense(IF date = None THEN Today ELSE date,
                             amount, category, vendor, description)
          appended == Append(exps, expense)
      IN  [raised |-> NoError, value |-> expense, expenses |-> appended,
           file |-> _save_expenses(fmt, appended, f)]

\* add_expense that appends and saves before it checks the date
add_expense_AppendsBeforeDateCheck(fmt, exps, f, amount, category, vendor, description, date) ==
    IF amount < 0
    THEN [raised |-> ErrAmount, value |-> NoExpense, expenses |-> exps, file |-> f]
    ELSE IF ~InCategories(category)
    THEN [raised |-> ErrCategory, value |-> NoExpense, expenses |-> exps, file |-> f]
    ELSE
      LET expense == Expense(IF date = None THEN Today ELSE date,
                             amount, category, vendor, description)
          appended == Append(exps, expense)
      IN  IF date # None /\ ~strptime(date).ok
          THEN [raised |-> ErrDate, value |-> NoExpense, expenses |-> appended,
                file |-> _save_expenses(fmt, appended, f)]
          ELSE [raised |-> NoError, value |-> expense, expenses |-> appended,
                file |-> _save_expenses(fmt, appended, f)]

\* add_expense: the three checks in the code's order, the default date, then
\* append and save; raised names the ValueError, value is the returned dict
add_expense(fmt, exps, f, amount, category, vendor, description, date) ==
    IF amount < 0
    THEN [raised |-> ErrAmount, value |-> NoExpense, expenses |-> exps, file |-> f]
    ELSE IF ~InCategories(category)
    THEN [raised |-> ErrCategory, value |-> NoExpense, expenses |-> exps, file |-> f]
    ELSE IF date # None /\ ~strptime(date).ok
    THEN [raised |-> ErrDate, value |-> NoExpense, expenses |-> exps, file |-> f]
    ELSE
      LET expense == Expense(IF date = None THEN Today ELSE date,
                             amount, category, vendor, description)
          appended == Append(exps, expense)
      IN  [raised |-> NoError, value |-> expense, expenses |-> appended,
           file |-> _save_expenses(fmt, appended, f)]

(***************************** view_expenses ******************************)
ErrStart == "start_date must be in YYYY-MM-DD format"

ErrEnd == "end_date must be in YYYY-MM-DD format"

\* strptime raises inside a list comprehension over exps
SomeDateRaises(exps) == \E i \in 1..Len(exps) : ~strptime(exps[i].date).ok

\* view_expenses: a copy of the list, narrowed by each filter that is truthy;
\* both date comprehensions parse the date of every record still in the list
view_expenses(exps, category, start_date, end_date) ==
    LET byCat == IF TruthyStr(category)
                 THEN SelectSeq(exps, LAMBDA e : e.category = category)
                 ELSE exps
        byStart == IF Truthy(start_date)
                   THEN SelectSeq(byCat, LAMBDA e :
                            DateLeq(strptime(start_date), strptime(e.date)))
                   ELSE byCat
        byEnd == IF Truthy(end_date)
                 THEN SelectSeq(byStart, LAMBDA e :
                          DateLeq(strptime(e.date), strptime(end_date)))
                 ELSE byStart
    IN  IF TruthyStr(category) /\ ~InCategories(category)
        THEN [raised |-> ErrCategory, value |-> <<>>]
        ELSE IF Truthy(start_date)
                /\ (~strptime(start_date).ok \/ SomeDateRaises(byCat))
        THEN [raised |-> ErrStart, value |-> <<>>]
        ELSE IF Truthy(end_date)
                /\ (~strptime(end_date).ok \/ SomeDateRaises(byStart))
        THEN [raised |-> ErrEnd, value |-> <<>>]
        ELSE [raised |-> NoError, value |-> byEnd]

\* sum(expense['amount'] for expense in exps), from 0, left to right
RECURSIVE SumAmounts(_)
SumAmounts(exps) ==
    IF exps = <<>> THEN 0
    ELSE SumAmounts(SubSeq(exps, 1, Len(exps) - 1)) + exps[Len(exps)].amount

\* total_expenses that drops the category filter
total_expenses_IgnoresCategory(exps, category, start_date, end_date) ==
    LET r == view_expenses(exps, NoneStr, start_date, end_date)
    IN  IF r.raised # NoError THEN [raised |-> r.raised, value |-> 0]
        ELSE [raised |-> NoError, value |-> SumAmounts(r.value)]

\* total_expenses: the sum over what view_expenses returns
total_expenses(exps, category, start_date, end_date) ==
    LET r == view_expenses(exps, category, start_date, end_date)
    IN  IF r.raised # NoError THEN [raised |-> r.raised, value |-> 0]
        ELSE [raised |-> NoError, value |-> SumAmounts(r.value)]

(************************ get_expenses_by_category ************************)
\* a dict is a sequence of entries in insertion order
DictHas(d, k) == \E i \in 1..Len(d) : d[i].key = k

DictGet(d, k, default) ==
    IF DictHas(d, k) THEN d[CHOOSE i \in 1..Len(d) : d[i].key = k].val ELSE default

\* d[k] = v that re-inserts a present key at the end
DictSet_MovesKeyLast(d, k, v) ==
    Append(SelectSeq(d, LAMBDA e : e.key # k), [key |-> k, val |-> v])

\* d[k] = v: a present key keeps its place, a new key goes last
DictSet(d, k, v) ==
    IF DictHas(d, k)
    THEN [i \in 1..Len(d) |-> IF d[i].key = k THEN [key |-> k, val |-> v] ELSE d[i]]
    ELSE Append(d, [key |-> k, val |-> v])

RECURSIVE get_expenses_by_category(_)
get_expenses_by_category(exps) ==
    IF exps = <<>> THEN <<>>
    ELSE LET category_totals == get_expenses_by_category(SubSeq(exps, 1, Len(exps) - 1))
             expense == exps[Len(exps)]
         IN  DictSet(category_totals, expense.category,
                     DictGet(category_totals, expense.category, 0) + expense.amount)

(************************** get_expense_summary ***************************)
\* min(dates) / max(dates) of a non-empty list of texts: the first smallest /
\* first largest element in str order
RECURSIVE MinStr(_)
MinStr(ds) ==
    IF Len(ds) = 1 THEN ds[1]
    ELSE LET m == MinStr(SubSeq(ds, 1, Len(ds) - 1))
         IN  IF StrLess(ds[Len(ds)], m) THEN ds[Len(ds)] ELSE m

RECURSIVE MaxStr(_)
MaxStr(ds) ==
    IF Len(ds) = 1 THEN ds[1]
    ELSE LET m == MaxStr(SubSeq(ds, 1, Len(ds) - 1))
         IN  IF StrLess(m, ds[Len(ds)]) THEN ds[Len(ds)] ELSE m

\* get_expense_summary: the fixed dict for an empty list, else total, count,
\* the by-category dict and min/max of the date strings
get_expense_summary(exps) ==
    IF exps = <<>>
    THEN [total_amount |-> 0, expense_count |-> 0, categories |-> <<>>,
          date_range |-> [start |-> None, end |-> None]]
    ELSE LET dates == [i \in 1..Len(exps) |-> exps[i].date]
         IN  [total_amount |-> SumAmounts(exps),
              expense_count |-> Len(exps),
              categories |-> get_expenses_by_category(exps),
              date_range |-> [start |-> MinStr(dates), end |-> MaxStr(dates)]]

(***************************************************************************)
(* ReceiptOCR: the text of a receipt is a sequence of one-character        *)
(* strings over letters, digits, blank, newline and punctuation.           *)
(***************************************************************************)
\* the characters of a str, in order
Chars(str) == [i \in 1..Len(str) |-> SubSeq(str, i, i)]

\* the str made of a sequence of characters
RECURSIVE Join(_)
Join(s) == IF s = <<>> THEN "" ELSE Head(s) \o Join(Tail(s))

UpperChars == Chars("ABCDEFGHIJKLMNOPQRSTUVWXYZ")

LowerChars == Chars("abcdefghijklmnopqrstuvwxyz")

IsUpper(c) == \E i \in 1..26 : UpperChars[i] = c

IsLower(c) == \E i \in 1..26 : LowerChars[i] = c

\* str.isalpha() of one character / of a non-empty text
IsAlpha(c) == IsUpper(c) \/ IsLower(c)

AllAlpha(s) == s # <<>> /\ \A i \in 1..Len(s) : IsAlpha(s[i])

\* \s and \w of the re module
IsSpace(c) == c \in {" ", "\n", "\t", "\r"}

IsWord(c) == IsAlpha(c) \/ IsDigit(c) \/ c = "_"

ToLower(c) ==
    IF IsUpper(c) THEN LowerChars[CHOOSE i \in 1..26 : UpperChars[i] = c] ELSE c

ToUpper(c) ==
    IF IsLower(c) THEN UpperChars[CHOOSE i \in 1..26 : LowerChars[i] = c] ELSE c

\* str.lower()
lower(s) == [i \in 1..Len(s) |-> ToLower(s[i])]

\* str.title(): a letter is upper-cased when no letter precedes it directly,
\* lower-cased otherwise
title(s) ==
    [i \in 1..Len(s) |->
        IF i > 1 /\ IsAlpha(s[i - 1]) THEN ToLower(s[i]) ELSE ToUpper(s[i])]

\* str.strip(): white space removed at both ends
RECURSIVE strip(_)
strip(s) ==
    IF s # <<>> /\ IsSpace(Head(s)) THEN strip(Tail(s))
    ELSE IF s # <<>> /\ IsSpace(s[Len(s)]) THEN strip(SubSeq(s, 1, Len(s) - 1))
    ELSE s

\* needle in hay
Contains(hay, needle) ==
    \E i \in 0..(Len(hay) - Len(needle)) : SubSeq(hay, i + 1, i + Len(needle)) = needle

\* the number of characters from position i on that satisfy a class test
RECURSIVE DigitRun(_, _)
DigitRun(s, i) == IF i <= Len(s) /\ IsDigit(s[i]) THEN 1 + DigitRun(s, i + 1) ELSE 0

RECURSIVE SpaceRun(_, _)
SpaceRun(s, i) == IF i <= Len(s) /\ IsSpace(s[i]) THEN 1 + SpaceRun(s, i + 1) ELSE 0

RECURSIVE WordRun(_, _)
WordRun(s, i) == IF i <= Len(s) /\ IsWord(s[i]) THEN 1 + WordRun(s, i + 1) ELSE 0

(*************************** suggest_category ******************************)
Rule(keyword, category) == [key |-> Chars(keyword), val |-> category]

\* _load_vendor_categories: the dict literal, its items in insertion order
vendor_categories ==
    << Rule("mcdonalds", "Food & Dining"), Rule("burger king", "Food & Dining"),
       Rule("starbucks", "Food & Dining"), Rule("subway", "Food & Dining"),
       Rule("pizza", "Food & Dining"), Rule("restaurant", "Food & Dining"),
       Rule("cafe", "Food & Dining"), Rule("diner", "Food & Dining"),
       Rule("walmart", "Groceries"), Rule("target", "Groceries"),
       Rule("kroger", "Groceries"), Rule("safeway", "Groceries"),
       Rule("grocery", "Groceries"), Rule("supermarket", "Groceries"),
       Rule("market", "Groceries"),
       Rule("shell", "Gas"), Rule("exxon", "Gas"), Rule("chevron", "Gas"),
       Rule("bp", "Gas"), Rule("gas station", "Gas"), Rule("fuel", "Gas"),
       Rule("uber", "Transportation"), Rule("lyft", "Transportation"),
       Rule("taxi", "Transportation"), Rule("bus", "Transportation"),
       Rule("metro", "Transportation"), Rule("transit", "Transportation"),
       Rule("amazon", "Shopping"), Rule("ebay", "Shopping"),
       Rule("best buy", "Shopping"), Rule("costco", "Shopping"),
       Rule("mall", "Shopping"), Rule("store", "Shopping"),
       Rule("pharmacy", "Healthcare"), Rule("cvs", "Healthcare"),
       Rule("walgreens", "Healthcare"), Rule("clinic", "Healthcare"),
       Rule("hospital", "Healthcare"), Rule("doctor", "Healthcare"),
       Rule("other", "Other") >>

\* the loop of suggest_category from item i of the dict on
RECURSIVE FirstRule(_, _, _)
FirstRule(rules, vendor_lower, i) ==
    IF i > Len(rules) THEN "Other"
    ELSE IF Contains(vendor_lower, rules[i].key) THEN rules[i].val
    ELSE FirstRule(rules, vendor_lower, i + 1)

\* suggest_category that returns the rule whose keyword occurs leftmost in
\* the vendor name
suggest_category_LeftmostKeyword(vendor) ==
    LET v == lower(vendor)
        At(k) == CHOOSE p \in 1..(Len(v) - Len(k) + 1) :
                    /\ SubSeq(v, p, p + Len(k) - 1) = k
                    /\ \A q \in 1..(p - 1) : SubSeq(v, q, q + Len(k) - 1) # k
        hits == {i \in 1..Len(vendor_categories) : Contains(v, vendor_categories[i].key)}
    IN  IF hits = {} THEN "Other"
        ELSE vendor_categories[
                 CHOOSE i \in hits : \A j \in hits :
                    \/ At(vendor_categories[i].key) < At(vendor_categories[j].key)
                    \/ (At(vendor_categories[i].key) = At(vendor_categories[j].key)
                          /\ i <= j)].val

\* suggest_category: the category of the first item of the dict whose keyword
\* is in the lower-cased vendor name
suggest_category(vendor) == FirstRule(vendor_categories, lower(vendor), 1)

(****************************** parse_vendor ******************************)
\* position of the first "\n" of a text, 0 when it has none
NewlineIndex(s) ==
    IF \E i \in 1..Len(s) : s[i] = "\n"
    THEN CHOOSE i \in 1..Len(s) : s[i] = "\n" /\ \A j \in 1..(i - 1) : s[j] # "\n"
    ELSE 0

\* text.split('\n')
RECURSIVE SplitLines(_)
SplitLines(s) ==
    LET n == NewlineIndex(s)
    IN  IF n = 0 THEN <<s>>
        ELSE <<SubSeq(s, 1, n - 1)>> \o SplitLines(SubSeq(s, n + 1, Len(s)))

\* re.search(r'\d{3}-\d{3}-\d{4}|\d{10}', line)
PhoneAt(line, i) ==
    \/ /\ i + 11 <= Len(line)
       /\ \A k \in {0, 1, 2, 4, 5, 6, 8, 9, 10, 11} : IsDigit(line[i + k])
       /\ line[i + 3] = "-" /\ line[i + 7] = "-"
    \/ /\ i + 9 <= Len(line)
       /\ \A k \in 0..9 : IsDigit(line[i + k])

HasPhone(line) == \E i \in 1..Len(line) : PhoneAt(line, i)

VendorDefault == Chars("Unknown Vendor")

\* the loop over lines[:5], from line i on
RECURSIVE FirstVendorLine(_, _)
FirstVendorLine(lines, i) ==
    IF i > Len(lines) THEN VendorDefault
    ELSE LET line == strip(lines[i])
         IN  IF Len(line) > 2 /\ ~IsDigit(line[1]) /\ ~HasPhone(line)
             THEN title(line)
             ELSE FirstVendorLine(lines, i + 1)

\* parse_vendor that looks at every line of the text
parse_vendor_AllLines(text) == FirstVendorLine(SplitLines(text), 1)

\* parse_vendor: the first of the first five lines that can be a vendor name
parse_vendor(text) ==
    LET lines == SplitLines(text)
    IN  FirstVendorLine(SubSeq(lines, 1, IF Len(lines) < 5 THEN Len(lines) ELSE 5), 1)

(****************************** parse_amount ******************************)
NoMatch == [ok |-> FALSE, end |-> 0, group |-> <<>>]

\* (\d+\.?\d*) tried at position j: as many digits as there are, a dot when
\* one follows, then as many digits as there are
NumberAt(s, j) ==
    LET n1  == DigitRun(s, j)
        dot == IF n1 > 0 /\ j + n1 <= Len(s) /\ s[j + n1] = "." THEN 1 ELSE 0
        n2  == IF dot = 1 THEN DigitRun(s, j + n1 + 1) ELSE 0
    IN  IF n1 = 0 THEN NoMatch
        ELSE [ok |-> TRUE, end |-> j + n1 + dot + n2 - 1,
              group |-> SubSeq(s, j, j + n1 + dot + n2 - 1)]

\* keyword\s*:?\s*\$?(\d+\.?\d*) tried at position i
KeywordAt(s, i, keyword) ==
    LET a == i + Len(keyword)
        b == a + SpaceRun(s, a)
        c == IF b <= Len(s) /\ s[b] = ":" THEN b + 1 ELSE b
        d == c + SpaceRun(s, c)
        e == IF d <= Len(s) /\ s[d] = "$" THEN d + 1 ELSE d
    IN  IF a - 1 <= Len(s) /\ SubSeq(s, i, a - 1) = keyword THEN NumberAt(s, e)
        ELSE NoMatch

\* (\d+\.\d{2})\s*$ with re.MULTILINE tried at position i: the white space
\* after the two fraction digits must reach the end of the text or a newline
LineEndAt(s, i) ==
    LET n1 == DigitRun(s, i)
        e  == i + n1 + 2
        w  == SpaceRun(s, e + 1)
        nl == {k \in 1..w : s[e + k] = "\n"}
    IN  IF n1 = 0 \/ e > Len(s) \/ s[i + n1] # "."
           \/ ~IsDigit(s[e - 1]) \/ ~IsDigit(s[e])
        THEN NoMatch
        ELSE IF e + w = Len(s)
        THEN [ok |-> TRUE, end |-> Len(s), group |-> SubSeq(s, i, e)]
        ELSE IF nl # {}
        THEN [ok |-> TRUE, end |-> e + (CHOOSE k \in nl : \A m \in nl : m <= k) - 1,
              group |-> SubSeq(s, i, e)]
        ELSE NoMatch

\* the five patterns of parse_amount, in the order of the list
AmountPatterns == 1..5

AmountMatchAt(pattern, s, i) ==
    IF pattern = 1 THEN KeywordAt(s, i, Chars("total"))
    ELSE IF pattern = 2 THEN KeywordAt(s, i, Chars("amount"))
    ELSE IF pattern = 3 THEN KeywordAt(s, i, Chars("subtotal"))
    ELSE IF pattern = 4
         THEN (IF s[i] = "$" THEN NumberAt(s, i + 1) ELSE NoMatch)
    ELSE LineEndAt(s, i)

\* re.findall(pattern, s, re.MULTILINE) from position i on: the groups of the
\* leftmost matches that do not overlap
RECURSIVE AmountFindAll(_, _, _)
AmountFindAll(pattern, s, i) ==
    IF i > Len(s) THEN <<>>
    ELSE LET m == AmountMatchAt(pattern, s, i)
         IN  IF m.ok THEN <<m.group>> \o AmountFindAll(pattern, s, m.end + 1)
             ELSE AmountFindAll(pattern, s, i + 1)

\* a float read from digits with an optional fraction, held as the digits of
\* its value: ip without leading zeros, fp without trailing zeros
RECURSIVE DropLeadingZeros(_)
DropLeadingZeros(s) ==
    IF s # <<>> /\ Head(s) = "0" THEN DropLeadingZeros(Tail(s)) ELSE s

RECURSIVE DropTrailingZeros(_)
DropTrailingZeros(s) ==
    IF s # <<>> /\ s[Len(s)] = "0" THEN DropTrailingZeros(SubSeq(s, 1, Len(s) - 1))
    ELSE s

Decimal(group) ==
    LET dot == DotIndex(group)
    IN  [ip |-> DropLeadingZeros(IF dot = 0 THEN group ELSE SubSeq(group, 1, dot - 1)),
         fp |-> DropTrailingZeros(IF dot = 0 THEN <<>>
                                  ELSE SubSeq(group, dot + 1, Len(group)))]

\* a < b on two such values
DecimalLess(a, b) ==
    \/ Len(a.ip) < Len(b.ip)
    \/ Len(a.ip) = Len(b.ip) /\ StrLess(a.ip, b.ip)
    \/ a.ip = b.ip /\ StrLess(a.fp, b.fp)

DecimalLeq(a, b) == a = b \/ DecimalLess(a, b)

\* 0.01 <= amount <= 10000
Reasonable(amount) ==
    /\ DecimalLeq(Decimal(Chars("0.01")), amount)
    /\ DecimalLeq(amount, Decimal(Chars("10000")))

NoAmount == [ip |-> <<"None">>, fp |-> <<>>]

\* the amounts list after the loops over patterns and matches
RECURSIVE AmountsOf(_, _)
AmountsOf(text_lower, pattern) ==
    IF pattern > 5 THEN <<>>
    ELSE LET groups == AmountFindAll(pattern, text_lower, 1)
             values == [k \in 1..Len(groups) |-> Decimal(groups[k])]
         IN  SelectSeq(values, Reasonable) \o AmountsOf(text_lower, pattern + 1)

\* max(amounts): the first largest element
RECURSIVE MaxAmount(_)
MaxAmount(amounts) ==
    IF Len(amounts) = 1 THEN amounts[1]
    ELSE LET m == MaxAmount(SubSeq(amounts, 1, Len(amounts) - 1))
         IN  IF DecimalLess(m, amounts[Len(amounts)]) THEN amounts[Len(amounts)] ELSE m

\* `max(amounts) if amounts else None`
MaxOrNone(amounts) == IF amounts = <<>> THEN NoAmount ELSE MaxAmount(amounts)

\* `amounts[0] if amounts else None`
FirstOrNone(amounts) == IF amounts = <<>> THEN NoAmount ELSE amounts[1]

\* parse_amount that returns the first amount it kept
parse_amount_FirstKept(text) == FirstOrNone(AmountsOf(lower(text), 1))

\* parse_amount: the largest of the reasonable amounts the patterns find
parse_amount(text) == MaxOrNone(AmountsOf(lower(text), 1))

(******************************* parse_date *******************************)
IsSep(c) == c \in {"/", "-"}

NoGroups == [ok |-> FALSE, end |-> 0, groups |-> <<>>]

\* (\d{1,2})[/-] tried at position i: the length of the group, 0 for no match
ShortGroup(s, i) ==
    IF i + 2 <= Len(s) /\ IsDigit(s[i]) /\ IsDigit(s[i + 1]) /\ IsSep(s[i + 2]) THEN 2
    ELSE IF i + 1 <= Len(s) /\ IsDigit(s[i]) /\ IsSep(s[i + 1]) THEN 1
    ELSE 0

\* (\d{1,2})[/-](\d{1,2})[/-](\d{2,4}) tried at position i
MonthFirstAt(s, i) ==
    LET n1 == ShortGroup(s, i)
        j  == i + n1 + 1
        n2 == ShortGroup(s, j)
        k  == j + n2 + 1
        r3 == DigitRun(s, k)
        n3 == IF r3 > 4 THEN 4 ELSE r3
    IN  IF n1 = 0 \/ n2 = 0 \/ r3 < 2 THEN NoGroups
        ELSE [ok |-> TRUE, end |-> k + n3 - 1,
              groups |-> <<SubSeq(s, i, i + n1 - 1), SubSeq(s, j, j + n2 - 1),
                           SubSeq(s, k, k + n3 - 1)>>]

\* (\d{4})[/-](\d{1,2})[/-](\d{1,2}) tried at position i
YearFirstAt(s, i) ==
    LET j  == i + 5
        n2 == ShortGroup(s, j)
        k  == j + n2 + 1
        r3 == DigitRun(s, k)
        n3 == IF r3 > 2 THEN 2 ELSE r3
    IN  IF i + 4 > Len(s) \/ ~AllDigits(SubSeq(s, i, i + 3)) \/ ~IsSep(s[i + 4])
           \/ n2 = 0 \/ r3 < 1
        THEN NoGroups
        ELSE [ok |-> TRUE, end |-> k + n3 - 1,
              groups |-> <<SubSeq(s, i, i + 3), SubSeq(s, j, j + n2 - 1),
                           SubSeq(s, k, k + n3 - 1)>>]

\* (\w{3,9})\s+(\d{1,2}),?\s+(\d{2,4}) tried at position i
MonthNameAt(s, i) ==
    LET n1  == WordRun(s, i)
        sp1 == SpaceRun(s, i + n1)
        j   == i + n1 + sp1
        n2  == DigitRun(s, j)
        c   == IF j + n2 <= Len(s) /\ s[j + n2] = "," THEN 1 ELSE 0
        sp2 == SpaceRun(s, j + n2 + c)
        k   == j + n2 + c + sp2
        r3  == DigitRun(s, k)
        n3  == IF r3 > 4 THEN 4 ELSE r3
    IN  IF n1 < 3 \/ n1 > 9 \/ sp1 = 0 \/ n2 < 1 \/ n2 > 2 \/ sp2 = 0 \/ r3 < 2
        THEN NoGroups
        ELSE [ok |-> TRUE, end |-> k + n3 - 1,
              groups |-> <<SubSeq(s, i, i + n1 - 1), SubSeq(s, j, j + n2 - 1),
                           SubSeq(s, k, k + n3 - 1)>>]

\* the three patterns of parse_date, in the order of the list
DateMatchAt(pattern, s, i) ==
    IF pattern = 1 THEN MonthFirstAt(s, i)
    ELSE IF pattern = 2 THEN YearFirstAt(s, i)
    ELSE MonthNameAt(s, i)

\* re.findall(pattern, text) from position i on
RECURSIVE DateFindAll(_, _, _)
DateFindAll(pattern, s, i) ==
    IF i > Len(s) THEN <<>>
    ELSE LET m == DateMatchAt(pattern, s, i)
         IN  IF m.ok THEN <<m.groups>> \o DateFindAll(pattern, s, m.end + 1)
             ELSE DateFindAll(pattern, s, i + 1)

\* the month names %B knows, January first
MonthNames ==
    << Chars("january"), Chars("february"), Chars("march"), Chars("april"),
       Chars("may"), Chars("june"), Chars("july"), Chars("august"),
       Chars("september"), Chars("october"), Chars("november"), Chars("december") >>

\* datetime(year, month, day): ValueError unless it is a day of the calendar
datetime(y, m, d) ==
    IF y >= 1 /\ y <= 9999 /\ m >= 1 /\ m <= 12 /\ d >= 1 /\ d <= DaysInMonth(y, m)
    THEN [ok |-> TRUE, y |-> y, m |-> m, d |-> d]
    ELSE NoDate

\* datetime.strptime(f"{day} {month} {year}", "%d %B %Y")
strptime_dBY(day, month, year) ==
    IF DayToken(day) /\ Len(year) = 4 /\ \E n \in 1..12 : MonthNames[n] = lower(month)
    THEN datetime(DigitsToNat(year),
                  CHOOSE n \in 1..12 : MonthNames[n] = lower(month),
                  DigitsToNat(day))
    ELSE NoDate

\* int(text) of a group: digits, single underscores allowed between them;
\* anything else raises ValueError
IntOk(g) ==
    /\ g # <<>>
    /\ \A i \in 1..Len(g) :
          \/ IsDigit(g[i])
          \/ g[i] = "_" /\ i > 1 /\ i < Len(g) /\ IsDigit(g[i - 1]) /\ IsDigit(g[i + 1])

IntVal(g) == DigitsToNat(SelectSeq(g, IsDigit))

\* the body of the loop over matches: the date one match stands for
DateOfMatch(match) ==
    IF AllAlpha(match[1]) THEN strptime_dBY(match[2], match[1], match[3])
    ELSE IF ~IntOk(match[1]) THEN NoDate
    ELSE IF Len(match[3]) = 4
    THEN (IF Len(match[1]) = 4
          THEN datetime(IntVal(match[1]), IntVal(match[2]), IntVal(match[3]))
          ELSE datetime(IntVal(match[3]), IntVal(match[1]), IntVal(match[2])))
    ELSE LET year == IntVal(match[3])
         IN  datetime(IF year < 50 THEN year + 2000 ELSE year + 1900,
                      IntVal(match[1]), IntVal(match[2]))

TwoDigits(n) == <<DigitChars[(n \div 10) + 1], DigitChars[(n % 10) + 1]>>

\* date_obj.strftime("%Y-%m-%d"); whether %Y of a year below 1000 comes with
\* leading zeros depends on the C library: pads says that it does
strftime(date, pads) ==
    LET year == NatToDigits(date.y)
        zeros == IF pads /\ Len(year) < 4 THEN SubSeq(<<"0", "0", "0">>, 1, 4 - Len(year))
                 ELSE <<>>
    IN  zeros \o year \o <<"-">> \o TwoDigits(date.m) \o <<"-">> \o TwoDigits(date.d)

\* the first match, from match k of the list on, that stands for a date
RECURSIVE FirstDate(_, _)
FirstDate(matches, k) ==
    IF k > Len(matches) THEN NoDate
    ELSE IF DateOfMatch(matches[k]).ok THEN DateOfMatch(matches[k])
    ELSE FirstDate(matches, k + 1)

\* the matches in the order the two loops meet them: pattern by pattern, from
\* the given pattern on, and within a pattern in the order of findall
RECURSIVE DateMatches(_, _)
DateMatches(text, pattern) ==
    IF pattern > 3 THEN <<>>
    ELSE DateFindAll(pattern, text, 1) \o DateMatches(text, pattern + 1)

\* the return inside the loops, and the fallback after them
FormattedOrToday(date, pads) == IF date.ok THEN strftime(date, pads) ELSE Today

\* parse_date: the first match of the first pattern that stands for a date,
\* today's date when there is none
parse_date(text, pads) == FormattedOrToday(FirstDate(DateMatches(text, 1), 1), pads)

(************************ receipts into the store *************************)
ErrImage == "Image file not found"

ErrExtract == "Error extracting text from receipt"

ErrMissingAmount == "Could not extract amount from receipt. Please add manually."

\* extract_text_from_receipt: the text pytesseract reads off the image,
\* stripped
extract_text_from_receipt(raw) == strip(raw)

\* process_receipt from the extracted text on: the dict of the four parsers'
\* results
receipt_info(amount, date, vendor, text) ==
    [amount |-> amount,
     date |-> date,
     vendor |-> vendor,
     suggested_category |-> suggest_category(vendor),
     extracted_text |-> text,
     needs_review |-> (amount = NoAmount \/ vendor = VendorDefault)]

process_receipt(text, pads) ==
    receipt_info(parse_amount(text), parse_date(text, pads), parse_vendor(text), text)

\* process_receipt raised: there is no receipt_info
NoReceipt ==
    [amount |-> NoAmount, date |-> <<>>, vendor |-> <<>>, suggested_category |-> NoneStr,
     extracted_text |-> <<>>, needs_review |-> TRUE]

\* the float of an extracted amount in the store's unit of 0.01 (the texts of
\* the receipts added to a store carry at most two fraction digits)
Hundredths(amount) ==
    100 * DigitsToNat(amount.ip)
    + (IF Len(amount.fp) = 0 THEN 0
       ELSE IF Len(amount.fp) = 1 THEN 10 * DigitVal(amount.fp[1])
       ELSE DigitsToNat(SubSeq(amount.fp, 1, 2)))

\* user_confirmation_callback: absent, or a function and what it returns
NoCallback == [given |-> FALSE, returns |-> NoneStr]

Callback(category) == [given |-> TRUE, returns |-> category]

\* the result of add_expense_from_receipt when add_expense was called
AddedFromReceipt(info, r) ==
    [raised |-> r.raised, receipt_info |-> info, value |-> r.value,
     expenses |-> r.expenses, file |-> r.file]

\* `user_confirmation_callback(suggested_category)` when a callback is given
final_category(info, callback) ==
    IF callback.given THEN callback.returns ELSE info.suggested_category

\* the rest of add_expense_from_receipt, which adds a receipt without amount
\* as amount 0
add_receipt_expense_ZeroDefault(fmt, exps, f, image, callback, info) ==
    AddedFromReceipt(info,
        add_expense(fmt, exps, f,
                    IF info.amount = NoAmount THEN 0 ELSE Hundredths(info.amount),
                    final_category(info, callback),
                    Join(info.vendor),
                    "Receipt processed: " \o image.path,
                    info.date))

\* add_expense_from_receipt after process_receipt returned: the amount check,
\* the callback's category when a callback is given, and add_expense
add_receipt_expense(fmt, exps, f, image, callback, info) ==
    IF info.amount = NoAmount
    THEN [raised |-> ErrMissingAmount, receipt_info |-> info,
          value |-> NoExpense, expenses |-> exps, file |-> f]
    ELSE AddedFromReceipt(info,
             add_expense(fmt, exps, f,
                         Hundredths(info.amount),
                         final_category(info, callback),
                         Join(info.vendor),
                         "Receipt processed: " \o image.path,
                         info.date))

(************************* inputs of the operations ***********************)
D_2024_01_05 == <<"2", "0", "2", "4", "-", "0", "1", "-", "0", "5">>

D_2024_01_10 == <<"2", "0", "2", "4", "-", "0", "1", "-", "1", "0">>

D_2024_1_5 == <<"2", "0", "2", "4", "-", "1", "-", "5">>

D_2024_02_30 == <<"2", "0", "2", "4", "-", "0", "2", "-", "3", "0">>

D_2024_slash == <<"2", "0", "2", "4", "/", "0", "1", "/", "0", "5">>

D_garbage == <<"x", "x">>

\* the calls of add_expense the model performs: amount, category, vendor,
\* description, date
AddArgs ==
    { <<1250, "Gas", "Shell", "Fill up", None>>,
      <<0, "Food & Dining", "", "", D_2024_01_10>>,
      <<250, "Gas", "Cafe", "Lunch", D_2024_1_5>>,
      <<0 - 100, "Gas", "Shell", "", D_2024_01_05>>,
      <<0 - 100, "Bogus", "Shell", "", D_2024_02_30>>,
      <<1250, "Bogus", "", "", D_2024_01_05>>,
      <<1250, "", "", "", None>>,
      <<1250, "Gas", "", "", D_2024_02_30>>,
      <<1250, "Gas", "", "", D_2024_slash>>,
      <<1250, "Gas", "", "", <<>>>> }

\* the calls of view_expenses / total_expenses the model performs: category,
\* start_date, end_date
QueryArgs ==
    { <<NoneStr, None, None>>,
      <<"Gas", None, None>>,
      <<"Bogus", None, None>>,
      <<"", <<>>, <<>>>>,
      <<NoneStr, D_2024_01_05, D_2024_01_10>>,
      <<"Gas", D_2024_01_05, None>>,
      <<NoneStr, None, D_2024_01_10>>,
      <<"Food & Dining", D_2024_01_05, D_2024_01_05>>,
      <<NoneStr, D_2024_02_30, None>>,
      <<NoneStr, D_2024_1_5, None>>,
      <<NoneStr, None, D_2024_slash>>,
      <<"Bogus", D_2024_02_30, None>> }

StorageFormats == {"csv", "json", "xml"}

Row(date, amount, category, vendor, description, extra) ==
    [date |-> date, amount |-> amount, category |-> category,
     vendor |-> vendor, description |-> description, extra |-> extra]

GoodRow == Row(D_2024_01_10, <<"5", ".", "5", "0">>, "Gas", "Shell", "", FALSE)

FoodRow == Row(D_2024_01_05, <<"1", "2">>, "Food & Dining", "Cafe", "Lunch", FALSE)

TodayRow == Row(Today, <<"2", "0", ".", "0", "5">>, "Gas", "Exxon", "", FALSE)

BadAmountRow == Row(D_2024_01_05, <<"x">>, "Gas", "", "", FALSE)

ExtraCellRow == Row(D_2024_01_05, <<"3", ".", "2", "5">>, "Other", "a", "b", TRUE)

InvalidRow == Row(D_garbage, <<"-", "3", ".", "2", "5">>, "Bogus", "", "", FALSE)

\* backing files a store may be constructed on
InitFiles ==
    { AbsentFile,
      [kind |-> "text", rows |-> <<>>],
      [kind |-> "csv", rows |-> <<GoodRow>>],
      [kind |-> "csv", rows |-> <<GoodRow, FoodRow, TodayRow>>],
      [kind |-> "csv", rows |-> <<GoodRow, BadAmountRow>>],
      [kind |-> "csv", rows |-> <<ExtraCellRow>>],
      [kind |-> "csv", rows |-> <<InvalidRow>>],
      [kind |-> "json", rows |-> <<GoodRow, FoodRow, TodayRow>>] }

\* receipt images: a path, whether the file exists, whether the OCR engine
\* can read it, and the text the engine reads off it
Image(path, raw) == [path |-> path, exists |-> TRUE, readable |-> TRUE, raw |-> Chars(raw)]

ReceiptImages ==
    { [path |-> "gone.jpg", exists |-> FALSE, readable |-> FALSE, raw |-> <<>>],
      [path |-> "notes.txt", exists |-> TRUE, readable |-> FALSE, raw |-> <<>>],
      Image("shell.jpg", "\n SHELL\n1/2/24\nTotal: $8.37\n"),
      Image("diner.jpg", "Joe's Diner\nno numbers here"),
      Image("store.jpg", "Unknown Store\n1/2/0099\n$5.00"),
      Image("blur.jpg", "12345\n\n555-123-4567") }

\* process_receipt of the receipt images that exist and can be read: what
\* the parsers make of the extracted text, computed once per image
ProcessedReceipts ==
    [image \in {im \in ReceiptImages : im.exists /\ im.readable} |->
        [pads \in BOOLEAN |->
            process_receipt(extract_text_from_receipt(image.raw), pads)]]

\* add_expense_from_receipt: process_receipt's errors go to the caller; of
\* the callback the model keeps what it returns
add_expense_from_receipt(fmt, exps, f, image, callback, pads) ==
    IF ~image.exists
    THEN [raised |-> ErrImage, receipt_info |-> NoReceipt, value |-> NoExpense,
          expenses |-> exps, file |-> f]
    ELSE IF ~image.readable
    THEN [raised |-> ErrExtract, receipt_info |-> NoReceipt, value |-> NoExpense,
          expenses |-> exps, file |-> f]
    ELSE add_receipt_expense(fmt, exps, f, image, callback, ProcessedReceipts[image][pads])

Callbacks == {NoCallback, Callback("Travel"), Callback("Bogus"), Callback(NoneStr)}

\* files and formats of the stores receipts are added to
ReceiptFiles ==
    { AbsentFile,
      [kind |-> "csv", rows |-> <<GoodRow>>],
      [kind |-> "json", rows |-> <<GoodRow>>] }

ReceiptFormats == {"csv", "json"}

\* the texts the parsers are applied to: every concatenation of at most
\* MaxTokens tokens of one family, and the texts of the documentation
RECURSIVE Concats(_, _)
Concats(tokens, n) ==
    IF n = 0 THEN {<<>>}
    ELSE LET shorter == Concats(tokens, n - 1)
         IN  shorter \cup {s \o Chars(t) : s \in shorter, t \in tokens}

AmountTokens ==
    {"Total: $", "subtotal: ", "amount", "$", "8.37", "12", "3.5", "\n", " ",
     "x", "10000.01", "0.00"}

DateTokens ==
    {"2024-01-15", "2012/1/5", "1/2/24", "1/2/99", "12/25/2023",
     "January 15, 2024", " ", "x", "2/30/24", "1/2/0099"}

VendorTokens ==
    {"\n", "Shell", "  ", "ab", "1\n2\n3\n4\n5\n", "555-123-4567", "1234567890",
     "joe's diNER", "7up"}

CategoryTokens ==
    {"Shell", " ", "store", "Cafe", "gas station", "x", "BP", "Other", "market"}

ExampleTexts ==
    { Chars("Total: $8.37"), Chars("no numbers here"),
      Chars("STARBUCKS\n123 Main St\nSeattle, WA"),
      Chars("Shell Gas Station"), Chars("Unknown Store"),
      Chars("2012-01-15"),
      Chars("Subtotal: 3.50\nTax 0.00\nTotal: $8.37\n"),
      Chars("a\nb\nc\nd\ne\nShell"),
      Chars("555-123-4567\n7up\nab\n  shell oil \n") }

OCRTexts ==
    Concats(AmountTokens, MaxTokens) \cup Concats(DateTokens, MaxTokens)
    \cup Concats(VendorTokens, MaxTokens) \cup Concats(CategoryTokens, MaxTokens)
    \cup ExampleTexts

(******************************** actions *********************************)
Init ==
    /\ storage_format \in StorageFormats
    /\ file \in InitFiles
    /\ expenses = [t \in Trackers |-> <<>>]
    /\ constructed = [t \in Trackers |-> FALSE]
    /\ ret = NoCall

\* ExpenseTracker(data_file, storage_format): instance t is created on the
\* file; when t was in use before, this is a new store on the same file
\* taking its place (before keeps the list of the store it replaces)
Construct(t) ==
    /\ constructed' = [constructed EXCEPT ![t] = TRUE]
    /\ expenses' = [expenses EXCEPT ![t] = _load_expenses(storage_format, file, <<>>)]
    /\ ret' = [op |-> "construct", tracker |-> t, reopened |-> constructed[t],
               before |-> expenses[t]]
    /\ UNCHANGED <<storage_format, file>>

\* tracker.add_expense(amount, category, vendor, description, date)
AddExpense(t) ==
    /\ constructed[t]
    /\ Len(expenses[t]) < MaxExpenses
    /\ \E a \in AddArgs :
          LET r == add_expense(storage_format, expenses[t], file,
                               a[1], a[2], a[3], a[4], a[5])
          IN  /\ expenses' = [expenses EXCEPT ![t] = r.expenses]
              /\ file' = r.file
              /\ ret' = [op |-> "add", tracker |-> t, args |-> a,
                         raised |-> r.raised, value |-> r.value,
                         before |-> expenses[t]]
    /\ UNCHANGED <<storage_format, constructed>>

\* view_expenses that assigns the filtered list to the store's own list
ViewExpenses_KeepsFiltered(t) ==
    /\ constructed[t]
    /\ \E q \in QueryArgs :
          LET r == view_expenses(expenses[t], q[1], q[2], q[3])
          IN  /\ ret' = [op |-> "view", tracker |-> t, args |-> q,
                         raised |-> r.raised, value |-> r.value]
              /\ expenses' = [expenses EXCEPT ![t] =
                                 IF r.raised = NoError THEN r.value ELSE @]
    /\ UNCHANGED <<storage_format, file, constructed>>

\* tracker.view_expenses(category, start_date, end_date)
ViewExpenses(t) ==
    /\ constructed[t]
    /\ \E q \in QueryArgs :
          LET r == view_expenses(expenses[t], q[1], q[2], q[3])
          IN  ret' = [op |-> "view", tracker |-> t, args |-> q,
                      raised |-> r.raised, value |-> r.value]
    /\ UNCHANGED <<storage_format, file, expenses, constructed>>

\* tracker.total_expenses(category, start_date, end_date)
TotalExpenses(t) ==
    /\ constructed[t]
    /\ \E q \in QueryArgs :
          LET r == total_expenses(expenses[t], q[1], q[2], q[3])
          IN  ret' = [op |-> "total", tracker |-> t, args |-> q,
                      raised |-> r.raised, value |-> r.value]
    /\ UNCHANGED <<storage_format, file, expenses, constructed>>

\* tracker.get_expenses_by_category()
GetExpensesByCategory(t) ==
    /\ constructed[t]
    /\ ret' = [op |-> "by_category", tracker |-> t,
               value |-> get_expenses_by_category(expenses[t])]
    /\ UNCHANGED <<storage_format, file, expenses, constructed>>

\* tracker.get_expense_summary()
GetExpenseSummary(t) ==
    /\ constructed[t]
    /\ ret' = [op |-> "summary", tracker |-> t,
               value |-> get_expense_summary(expenses[t])]
    /\ UNCHANGED <<storage_format, file, expenses, constructed>>

\* one store at a time on the file
Next ==
    \/ Construct(1)
    \/ AddExpense(1)
    \/ ViewExpenses(1)
    \/ TotalExpenses(1)
    \/ GetExpensesByCategory(1)
    \/ GetExpenseSummary(1)

Spec == Init /\ [][Next]_vars

\* two stores open on the same backing file, their calls interleaved
NextShared ==
    \/ Construct(1)
    \/ Construct(2)
    \/ AddExpense(1)
    \/ AddExpense(2)

SpecShared == Init /\ [][NextShared]_vars

\* add_expense_from_receipt(tracker, image_path, user_confirmation_callback)
AddExpenseFromReceipt(t) ==
    /\ constructed[t]
    /\ Len(expenses[t]) < MaxExpenses
    /\ \E image \in ReceiptImages, callback \in Callbacks, pads \in BOOLEAN :
          \E r \in {add_expense_from_receipt(storage_format, expenses[t], file,
                                             image, callback, pads)} :
              /\ expenses' = [expenses EXCEPT ![t] = r.expenses]
              /\ file' = r.file
              /\ ret' = [op |-> "add_from_receipt", tracker |-> t,
                         args |-> <<image, callback, pads>>,
                         raised |-> r.raised, receipt_info |-> r.receipt_info,
                         value |-> r.value, before |-> expenses[t],
                         file_before |-> file]
    /\ UNCHANGED <<storage_format, constructed>>

\* a store that takes manual entries and receipts
InitReceipt ==
    /\ storage_format \in ReceiptFormats
    /\ file \in ReceiptFiles
    /\ expenses = [t \in Trackers |-> <<>>]
    /\ constructed = [t \in Trackers |-> FALSE]
    /\ ret = NoCall

NextReceipt ==
    \/ Construct(1)
    \/ AddExpense(1)
    \/ AddExpenseFromReceipt(1)

SpecReceipt == InitReceipt /\ [][NextReceipt]_vars

(************************* the parsers on their own ************************)
\* pytesseract.image_to_string produced a text; no store is involved
InitOCR ==
    /\ storage_format = "csv"
    /\ file = AbsentFile
    /\ expenses = [t \in Trackers |-> <<>>]
    /\ constructed = [t \in Trackers |-> FALSE]
    /\ ret \in {[op |-> "image_to_string", text |-> text] : text \in OCRTexts}

\* ocr.extract_text_from_receipt(image_path), after the OCR engine's call
ExtractTextFromReceipt ==
    /\ ret.op = "image_to_string"
    /\ ret' = [op |-> "extract_text_from_receipt",
               text |-> extract_text_from_receipt(ret.text)]
    /\ UNCHANGED <<storage_format, file, expenses, constructed>>

\* the texts the parsers are called on: a page as the OCR engine read it, or
\* the text extract_text_from_receipt made of it
TextGiven == ret.op \in {"image_to_string", "extract_text_from_receipt"}

\* ocr.parse_amount(text)
ParseAmount ==
    /\ TextGiven
    /\ ret' = [op |-> "parse_amount", text |-> ret.text,
               value |-> parse_amount(ret.text)]
    /\ UNCHANGED <<storage_format, file, expenses, constructed>>

\* ocr.parse_date(text)
ParseDate ==
    /\ TextGiven
    /\ \E pads \in BOOLEAN :
          ret' = [op |-> "parse_date", text |-> ret.text, pads |-> pads,
                  value |-> parse_date(ret.text, pads)]
    /\ UNCHANGED <<storage_format, file, expenses, constructed>>

\* ocr.parse_vendor(text)
ParseVendor ==
    /\ TextGiven
    /\ ret' = [op |-> "parse_vendor", text |-> ret.text,
               value |-> parse_vendor(ret.text)]
    /\ UNCHANGED <<storage_format, file, expenses, constructed>>

\* ocr.suggest_category(vendor), the text taken as a vendor name
SuggestCategory ==
    /\ TextGiven
    /\ ret' = [op |-> "suggest_category", text |-> ret.text,
               value |-> suggest_category(ret.text)]
    /\ UNCHANGED <<storage_format, file, expenses, constructed>>

\* ocr.process_receipt(image_path), from the extracted text on
ProcessReceipt ==
    /\ TextGiven
    /\ \E pads \in BOOLEAN :
          ret' = [op |-> "process_receipt", text |-> ret.text, pads |-> pads,
                  value |-> process_receipt(ret.text, pads)]
    /\ UNCHANGED <<storage_format, file, expenses, constructed>>

NextOCR ==
    \/ ExtractTextFromReceipt
    \/ ParseAmount
    \/ ParseDate
    \/ ParseVendor
    \/ SuggestCategory
    \/ ProcessReceipt

SpecOCR == InitOCR /\ [][NextOCR]_vars

(***************************************************************************)
(* Vocabulary of the properties                                            *)
(***************************************************************************)
\* a valid calendar date written YYYY-MM-DD: 4-digit year, 2-digit month,
\* 2-digit day, dashes between
IsoDate(s) ==
    /\ Len(s) = 10
    /\ \A i \in {1, 2, 3, 4, 6, 7, 9, 10} : IsDigit(s[i])
    /\ s[5] = "-" /\ s[8] = "-"
    /\ LET y == DigitsToNat(SubSeq(s, 1, 4))
           m == DigitsToNat(SubSeq(s, 6, 7))
           d == DigitsToNat(SubSeq(s, 9, 10))
       IN  y >= 1 /\ m \in 1..12 /\ d >= 1 /\ d <= DaysInMonth(y, m)

CategorySet == {EXPENSE_CATEGORIES[i] : i \in 1..Len(EXPENSE_CATEGORIES)}

\* arguments every reachable store is tried with
WideAmounts == {0 - 100, 0 - 1, 0, 1, 250, 1250}

WideCategories == CategorySet \cup {"Bogus", "", "gas", "other ", NoneStr}

D_2024_02_29 == <<"2", "0", "2", "4", "-", "0", "2", "-", "2", "9">>

D_2023_02_29 == <<"2", "0", "2", "3", "-", "0", "2", "-", "2", "9">>

D_2024_01_sp5 == <<"2", "0", "2", "4", "-", "0", "1", "-", " ", "5">>

D_24_01_05 == <<"2", "4", "-", "0", "1", "-", "0", "5">>

D_2024_13_01 == <<"2", "0", "2", "4", "-", "1", "3", "-", "0", "1">>

WideDates ==
    { <<>>, D_2024_01_05, D_2024_01_10, D_2024_1_5, D_2024_02_30, D_2024_slash,
      D_garbage, Today, D_2024_02_29, D_2023_02_29, D_2024_01_sp5, D_24_01_05,
      D_2024_13_01 }

WideTexts == {<<"Shell", "Fill up">>, <<"", "Lunch">>}

Opened == {t \in Trackers : constructed[t]}

\* the step that led here changed a store; every store state is entered by
\* such a step, so a property of all calls on a store is tried there
StoreChanged == ret.op = "construct" \/ (ret.op = "add" /\ ret.raised = NoError)

(***************************************************************************)
(* C1: for every amount >= 0, every category of the category set and every *)
(* well-formed date, add succeeds from any store state; the returned       *)
(* record's five fields equal the inputs, the record is the last element   *)
(* of the store, the store grows by exactly one and the records stored     *)
(* before keep their values and positions.                                 *)
(***************************************************************************)
AddAsSpecified(before, r, amount, category, vendor, description, date) ==
    /\ r.raised = NoError
    /\ r.value.date = date
    /\ r.value.amount = amount
    /\ r.value.category = category
    /\ r.value.vendor = vendor
    /\ r.value.description = description
    /\ Len(r.expenses) = Len(before) + 1
    /\ r.expenses[Len(r.expenses)] = r.value
    /\ \A i \in 1..Len(before) : r.expenses[i] = before[i]

\* C1: a valid add succeeds, returns the inputs and appends exactly one record
C1_AddSucceeds ==
    /\ (ret.op = "add" /\ ret.args[1] >= 0 /\ ret.args[2] \in CategorySet
          /\ IsoDate(ret.args[5]))
       => AddAsSpecified(ret.before,
                         [raised |-> ret.raised, value |-> ret.value,
                          expenses |-> expenses[ret.tracker]],
                         ret.args[1], ret.args[2], ret.args[3], ret.args[4],
                         ret.args[5])
    /\ StoreChanged =>
       \A t \in Opened, amount \in WideAmounts, category \in CategorySet,
          vd \in WideTexts, date \in WideDates :
          (amount >= 0 /\ IsoDate(date))
          => AddAsSpecified(expenses[t],
                            add_expense(storage_format, expenses[t], file,
                                        amount, category, vd[1], vd[2], date),
                            amount, category, vd[1], vd[2], date)

\* an add of amount 0 with an explicit date went through on a non-empty store
C1_Witness ==
    /\ ret.op = "add" /\ ret.raised = NoError
    /\ ret.args[1] = 0 /\ IsoDate(ret.args[5])
    /\ Len(ret.before) >= 1
    /\ Len(expenses[ret.tracker]) = Len(ret.before) + 1

(***************************************************************************)
(* C2 as stated: a negative amount fails with the invalid-amount error and *)
(* a category outside the category set fails with the invalid-category     *)
(* error, whatever the other arguments are.                                *)
(***************************************************************************)
C2_AsStated ==
    ret.op = "add" =>
       /\ ret.args[1] < 0 => ret.raised = ErrAmount
       /\ ret.args[2] \notin CategorySet => ret.raised = ErrCategory

(***************************************************************************)
(* C2 amended: a negative amount fails with the invalid-amount error       *)
(* whatever the other arguments are; a category outside the category set   *)
(* fails with the invalid-category error when the amount is not negative   *)
(* (the amount is checked first).                                          *)
(***************************************************************************)
RejectedAsSpecified(raised, amount, category) ==
    /\ amount < 0 => raised = ErrAmount
    /\ (amount >= 0 /\ category \notin CategorySet) => raised = ErrCategory

\* C2 (amended): invalid-amount for amount < 0; invalid-category for an
\* unknown category when the amount is not negative
C2_AmountThenCategory ==
    /\ ret.op = "add" => RejectedAsSpecified(ret.raised, ret.args[1], ret.args[2])
    /\ StoreChanged =>
       \A t \in Opened, amount \in WideAmounts, category \in WideCategories,
          date \in WideDates \cup {None} :
          RejectedAsSpecified(
              add_expense(storage_format, expenses[t], file,
                          amount, category, "", "", date).raised,
              amount, category)

\* an add with a negative amount and an unknown category was refused
C2_Witness ==
    /\ ret.op = "add"
    /\ ret.args[1] < 0 /\ ret.args[2] \notin CategorySet
    /\ ret.raised = ErrAmount
    /\ expenses[ret.tracker] = ret.before

(***************************************************************************)
(* C3 as stated: add fails with the invalid-date error for every supplied  *)
(* date that is not a valid calendar date written YYYY-MM-DD, so every     *)
(* date stored by a successful add with an explicit date is zero-padded.   *)
(***************************************************************************)
C3_AsStated ==
    (ret.op = "add" /\ ret.args[5] # None) =>
       /\ (ret.args[1] >= 0 /\ ret.args[2] \in CategorySet /\ ~IsoDate(ret.args[5]))
          => ret.raised = ErrDate
       /\ ret.raised = NoError => IsoDate(ret.value.date)

(***************************************************************************)
(* C4 as stated: after every add that returns successfully, for a store    *)
(* created on an absent file or loaded from an existing one, the backing   *)
(* file holds exactly the in-memory list: the same records with the same   *)
(* field values in the same order.                                         *)
(***************************************************************************)
\* what a reader of the file finds in it, compared field by field
FileHolds(f, exps) ==
    /\ f.kind = storage_format
    /\ Len(f.rows) = Len(exps)
    /\ \A i \in 1..Len(exps) :
          /\ f.rows[i].date = exps[i].date
          /\ float(f.rows[i].amount).ok
          /\ float(f.rows[i].amount).v = exps[i].amount
          /\ f.rows[i].category = exps[i].category
          /\ f.rows[i].vendor = exps[i].vendor
          /\ f.rows[i].description = exps[i].description

\* C4: after a successful add the file holds exactly the in-memory list
C4_AsStated ==
    (ret.op = "add" /\ ret.raised = NoError /\ storage_format \in {"csv", "json"})
    => FileHolds(file, expenses[ret.tracker])

(***************************************************************************)
(* C5 as stated: for the CSV and the JSON format, after any sequence of    *)
(* successful adds, a new store constructed on the same file with the same *)
(* format loads a list equal to the first store's in-memory list, field    *)
(* for field and in the same order.                                        *)
(***************************************************************************)
\* C5: a new store on the same file loads the list of the store before it
C5_AsStated ==
    (ret.op = "construct" /\ ret.reopened /\ storage_format \in {"csv", "json"})
    => expenses[ret.tracker] = ret.before

(***************************************************************************)
(* C6: load never fails the caller: the constructor returns a store; when  *)
(* the file is absent the store is empty, and when the file exists but     *)
(* cannot be read in the store's format the store is empty, also when the  *)
(* failure comes after some rows were read (no partly loaded store).       *)
(***************************************************************************)
CannotBeRead(fmt, f) ==
    /\ f.kind # "absent"
    /\ \/ fmt \notin {"csv", "json"}
       \/ fmt = "json" /\ f.kind # "json"
       \/ fmt = "csv" /\ f.kind = "json" /\ f.rows # <<>>
       \/ f.kind = fmt /\ \E i \in 1..Len(f.rows) : ~float(f.rows[i].amount).ok

\* C6: construction always yields a store, empty for an absent or unreadable file
C6_LoadNeverFails ==
    ret.op = "construct" =>
       /\ constructed[ret.tracker]
       /\ file.kind = "absent" => expenses[ret.tracker] = <<>>
       /\ CannotBeRead(storage_format, file) => expenses[ret.tracker] = <<>>

\* a tabular file whose second row has an unreadable amount was loaded
C6_Witness ==
    /\ ret.op = "construct"
    /\ storage_format = "csv" /\ file.kind = "csv"
    /\ Len(file.rows) = 2
    /\ float(file.rows[1].amount).ok /\ ~float(file.rows[2].amount).ok
    /\ expenses[ret.tracker] = <<>>

(***************************************************************************)
(* C7 as stated: query returns exactly the records that satisfy every      *)
(* supplied filter (category equal, date >= start_date, date <= end_date,  *)
(* bounds inclusive, the comparison being the lexical order of the stored  *)
(* date strings), in insertion order; with no filter, all records.  The    *)
(* date bounds considered are zero-padded calendar dates.                  *)
(***************************************************************************)
LexicalFilter(exps, category, start_date, end_date) ==
    SelectSeq(exps, LAMBDA e :
        /\ TruthyStr(category) => e.category = category
        /\ Truthy(start_date) => StrLeq(start_date, e.date)
        /\ Truthy(end_date) => StrLeq(e.date, end_date))

\* C7: query is the conjunctive filter, dates compared in lexical order
C7_AsStated ==
    (ret.op = "view" /\ ret.raised = NoError
       /\ (Truthy(ret.args[2]) => IsoDate(ret.args[2]))
       /\ (Truthy(ret.args[3]) => IsoDate(ret.args[3])))
    => ret.value = LexicalFilter(expenses[ret.tracker],
                                 ret.args[1], ret.args[2], ret.args[3])

(***************************************************************************)
(* C8 as stated: a category other than None that is not in the category    *)
(* set makes query fail with the invalid-category error; a start_date or   *)
(* end_date other than None that is not a well-formed YYYY-MM-DD string    *)
(* makes it fail with the invalid-date error; a query whose supplied       *)
(* filters are all well-formed does not fail.                              *)
(***************************************************************************)
CategoryAccepted(c) == c = NoneStr \/ c \in CategorySet

DateAccepted(d) == d = None \/ IsoDate(d)

\* C8: unknown categories and malformed bounds fail, well-formed queries do not
C8_AsStated ==
    ret.op = "view" =>
       /\ ~CategoryAccepted(ret.args[1]) => ret.raised = ErrCategory
       /\ (CategoryAccepted(ret.args[1])
             /\ (~DateAccepted(ret.args[2]) \/ ~DateAccepted(ret.args[3])))
          => ret.raised \in {ErrStart, ErrEnd}
       /\ (CategoryAccepted(ret.args[1]) /\ DateAccepted(ret.args[2])
             /\ DateAccepted(ret.args[3]))
          => ret.raised = NoError

(***************************************************************************)
(* C9: for every store state and every filter combination, total(filters)  *)
(* is the sum of the amounts of the records query(filters) returns, 0 when *)
(* that result is empty (and total fails exactly as query does); total()   *)
(* is the sum of all amounts and total(category=C) the sum over the        *)
(* records of category C.                                                  *)
(***************************************************************************)
RECURSIVE SumOf(_)
SumOf(exps) == IF exps = <<>> THEN 0 ELSE Head(exps).amount + SumOf(Tail(exps))

OfCategory(exps, c) == SelectSeq(exps, LAMBDA e : e.category = c)

TotalAsSpecified(exps, r, category, start_date, end_date) ==
    LET q == view_expenses(exps, category, start_date, end_date)
    IN  /\ r.raised = q.raised
        /\ q.raised = NoError => r.value = SumOf(q.value)
        /\ (q.raised = NoError /\ q.value = <<>>) => r.value = 0
        /\ (category = NoneStr /\ start_date = None /\ end_date = None)
           => (r.raised = NoError /\ r.value = SumOf(exps))
        /\ (category \in CategorySet /\ start_date = None /\ end_date = None)
           => (r.raised = NoError /\ r.value = SumOf(OfCategory(exps, category)))

QueryCategories == {NoneStr, "", "Gas", "Food & Dining", "Travel", "Bogus"}

QueryDates ==
    {None, <<>>, D_2024_01_05, D_2024_01_10, D_2024_1_5, D_2024_02_30, Today}

\* C9: total(filters) is the sum of the amounts query(filters) returns
C9_TotalIsSumOfQuery ==
    /\ ret.op = "total"
       => TotalAsSpecified(expenses[ret.tracker],
                           [raised |-> ret.raised, value |-> ret.value],
                           ret.args[1], ret.args[2], ret.args[3])
    /\ StoreChanged =>
       \A t \in Opened, category \in QueryCategories,
          start_date \in QueryDates, end_date \in QueryDates :
          TotalAsSpecified(expenses[t],
                           total_expenses(expenses[t], category, start_date, end_date),
                           category, start_date, end_date)

\* a total by category was taken on a store that also holds another category
C9_Witness ==
    /\ ret.op = "total" /\ ret.raised = NoError
    /\ ret.args = <<"Gas", None, None>>
    /\ ret.value > 0
    /\ \E i \in 1..Len(expenses[ret.tracker]) :
          /\ expenses[ret.tracker][i].category # "Gas"
          /\ expenses[ret.tracker][i].amount > 0

(***************************************************************************)
(* C10: by_category returns a mapping whose keys are exactly the           *)
(* categories that occur in the store, each mapped to the sum of the       *)
(* amounts of all records of that category, the keys in the order of each  *)
(* category's first occurrence in the store; the values sum to total().    *)
(***************************************************************************)
FirstIndex(exps, c) ==
    CHOOSE i \in 1..Len(exps) :
        exps[i].category = c /\ \A j \in 1..(i - 1) : exps[j].category # c

RECURSIVE SumOfValues(_)
SumOfValues(d) == IF d = <<>> THEN 0 ELSE Head(d).val + SumOfValues(Tail(d))

ByCategoryAsSpecified(exps, d) ==
    /\ {d[i].key : i \in 1..Len(d)} = {exps[i].category : i \in 1..Len(exps)}
    /\ \A i, j \in 1..Len(d) : i # j => d[i].key # d[j].key
    /\ \A i \in 1..Len(d) : d[i].val = SumOf(OfCategory(exps, d[i].key))
    /\ \A i, j \in 1..Len(d) :
          i < j => FirstIndex(exps, d[i].key) < FirstIndex(exps, d[j].key)
    /\ SumOfValues(d) = total_expenses(exps, NoneStr, None, None).value

AcceptedDates(exps) == \A i \in 1..Len(exps) : strptime(exps[i].date).ok

Earliest(exps, d) ==
    /\ \E i \in 1..Len(exps) : exps[i].date = d
    /\ \A i \in 1..Len(exps) : DateLeq(strptime(d), strptime(exps[i].date))

Latest(exps, d) ==
    /\ \E i \in 1..Len(exps) : exps[i].date = d
    /\ \A i \in 1..Len(exps) : DateLeq(strptime(exps[i].date), strptime(d))

SummaryAsSpecified(exps, s) ==
    /\ exps = <<>> =>
          /\ s.total_amount = 0 /\ s.expense_count = 0 /\ s.categories = <<>>
          /\ s.date_range.start = None /\ s.date_range.end = None
    /\ (exps # <<>> /\ AcceptedDates(exps)) =>
          /\ s.total_amount = SumOf(exps)
          /\ s.expense_count = Len(exps)
          /\ ByCategoryAsSpecified(exps, s.categories)
          /\ Earliest(exps, s.date_range.start)
          /\ Latest(exps, s.date_range.end)

\* C11: summary is (0, 0, {}, (None, None)) on an empty store, else total,
\* count, by_category and the chronologically earliest and latest date
C11_AsStated ==
    ret.op = "summary" => SummaryAsSpecified(expenses[ret.tracker], ret.value)

(***************************************************************************)
(* C12: query, total, by_category and summary leave the in-memory record   *)
(* list and the backing file unchanged, so calling summary twice with no   *)
(* intervening add yields identical results.                               *)
(***************************************************************************)
ReadOperations == {"view", "total", "by_category", "summary"}

\* C12: the four read operations change neither the list nor the file, and a
\* summary called right after a summary returns the same result
C12_ReadsChangeNothing ==
    [][ /\ ret'.op \in ReadOperations => (expenses' = expenses /\ file' = file)
        /\ (ret.op = "summary" /\ ret'.op = "summary") => ret'.value = ret.value
      ]_vars

\* a summary was taken of a store of several records that has a file
C12_Witness ==
    /\ ret.op = "summary"
    /\ ret.value.expense_count >= 2
    /\ Len(ret.value.categories) >= 2
    /\ file.kind # "absent" /\ file.rows # <<>>

(***************************************************************************)
(* C13 as stated: in every reachable state of a store (after construction  *)
(* with load from any backing file content, and after any sequence of      *)
(* adds), every record in the store has amount >= 0, a category that is a  *)
(* member of the category set, and a date that is a valid calendar date in *)
(* YYYY-MM-DD form.                                                        *)
(***************************************************************************)
ValidRecord(e) ==
    /\ e.amount >= 0
    /\ e.category \in CategorySet
    /\ IsoDate(e.date)

\* C13: every record of every store is valid
C13_AsStated ==
    \A t \in Opened : \A i \in 1..Len(expenses[t]) : ValidRecord(expenses[t][i])

\* a call of add_expense_from_receipt in which process_receipt returned
ReceiptProcessed ==
    /\ ret.op = "add_from_receipt"
    /\ ret.args[1].exists
    /\ ret.args[1].readable

\* C14: whenever the extracted amount is absent, add_expense_from_receipt
\* fails with the missing-amount error, whatever the other extracted fields
\* and the callback's category are: it returns no record, and the store and
\* the file are as they were before the call
C14_MissingAmount ==
    (ReceiptProcessed /\ ret.receipt_info.amount = NoAmount)
        => /\ ret.raised = ErrMissingAmount
           /\ ret.value = NoExpense
           /\ expenses[ret.tracker] = ret.before
           /\ file = ret.file_before

\* a receipt with a vendor but no amount, and a callback that names a
\* category of the set, is refused on a store that holds a record
C14_Witness ==
    /\ ReceiptProcessed
    /\ ret.receipt_info.amount = NoAmount
    /\ ret.receipt_info.vendor # VendorDefault
    /\ ret.args[2] = Callback("Travel")
    /\ ret.raised = ErrMissingAmount
    /\ ret.before # <<>>
    /\ expenses[ret.tracker] = ret.before

\* the category add_expense_from_receipt is to use: the callback's category
\* when a callback is given, the suggested category otherwise
CategoryToUse ==
    IF ret.args[2].given THEN ret.args[2].returns
    ELSE ret.receipt_info.suggested_category

\* the call added one record, with the category to use and the amount, vendor
\* and date of the extraction
ReceiptAdded ==
    LET added == expenses[ret.tracker][Len(expenses[ret.tracker])]
    IN  /\ ret.raised = NoError
        /\ Len(expenses[ret.tracker]) = Len(ret.before) + 1
        /\ SubSeq(expenses[ret.tracker], 1, Len(ret.before)) = ret.before
        /\ ret.value = added
        /\ added.category = CategoryToUse
        /\ added.amount = Hundredths(ret.receipt_info.amount)
        /\ added.vendor = Join(ret.receipt_info.vendor)
        /\ added.date = ret.receipt_info.date

\* C15: when the extracted amount is present, add_expense_from_receipt adds
\* one record whose category is the callback's category when a callback is
\* given and the suggested category otherwise, and whose amount, vendor and
\* date are those of the extraction; a callback's category outside the
\* category set makes it fail with the invalid-category error
C15_AsStated ==
    (ReceiptProcessed /\ ret.receipt_info.amount # NoAmount)
        => IF ret.args[2].given /\ ret.args[2].returns \notin CategorySet
           THEN ret.raised = ErrCategory
           ELSE ReceiptAdded

\* C16: suggest_category("Shell Gas Station") returns "Gas" and
\* suggest_category("Unknown Store") returns "Other", with the keyword table
\* of _load_vendor_categories
C16_AsStated ==
    ret.op = "suggest_category"
        => /\ (ret.text = Chars("Shell Gas Station") => ret.value = "Gas")
           /\ (ret.text = Chars("Unknown Store") => ret.value = "Other")

\* the positions at which a keyword occurs in a text
Occurrences(keyword, text) ==
    {p \in 1..(Len(text) - Len(keyword) + 1) :
        SubSeq(text, p, p + Len(keyword) - 1) = keyword}

\* the rules of the keyword table whose keyword occurs in the lower-cased
\* vendor name, by their place in the table
RulesThatOccur(vendor) ==
    {i \in 1..Len(vendor_categories) :
        Occurrences(vendor_categories[i].key, lower(vendor)) # {}}

LeastOf(S) == CHOOSE n \in S : \A m \in S : n <= m

\* C17: for every vendor name, suggest_category returns the category of the
\* first keyword, in the order the table defines them, that occurs in the
\* lower-cased vendor name, wherever in the name it occurs, and "Other" when
\* no keyword occurs
C17_FirstDefinedKeyword ==
    ret.op = "suggest_category"
        => IF RulesThatOccur(ret.text) = {} THEN ret.value = "Other"
           ELSE ret.value = vendor_categories[LeastOf(RulesThatOccur(ret.text))].val

\* a vendor name in which a keyword defined later in the table, and of
\* another category, occurs to the left of the first defined one: the first
\* defined one wins
C17_Witness ==
    /\ ret.op = "suggest_category"
    /\ \E i, j \in RulesThatOccur(ret.text) :
          /\ i = LeastOf(RulesThatOccur(ret.text))
          /\ LeastOf(Occurrences(vendor_categories[j].key, lower(ret.text)))
                < LeastOf(Occurrences(vendor_categories[i].key, lower(ret.text)))
          /\ vendor_categories[i].val # vendor_categories[j].val
          /\ ret.value = vendor_categories[i].val

\* text around a date token that is no part of a date
Fillers == {<<>>, <<" ">>, <<"x">>}

\* the text holds the token and, around it, nothing of a date
OnlyToken(text, token) == \E before, after \in Fillers : text = before \o token \o after

\* C18: a text whose only date token is a valid date written YYYY-MM-DD
\* makes parse_date return exactly that date, and a token M/D/YY the date
\* with the year expanded: 2000+yy when yy < 50, 1900+yy otherwise
C18_AsStated ==
    ret.op = "parse_date"
        => /\ \A date \in {Chars("2024-01-15"), Chars("2012-01-15")} :
                 OnlyToken(ret.text, date) => ret.value = date
           /\ OnlyToken(ret.text, Chars("1/2/24")) => ret.value = Chars("2024-01-02")
           /\ OnlyToken(ret.text, Chars("1/2/99")) => ret.value = Chars("1999-01-02")

\* the values the five patterns match in a text
MatchedValues(text) ==
    UNION { {Decimal(AmountFindAll(pattern, lower(text), 1)[k]) :
                k \in 1..Len(AmountFindAll(pattern, lower(text), 1))} :
            pattern \in AmountPatterns }

\* neither below 0.01 nor above 10000.00
InAmountRange(v) ==
    /\ ~DecimalLess(v, [ip |-> <<>>, fp |-> <<"0", "1">>])
    /\ ~DecimalLess([ip |-> <<"1", "0", "0", "0", "0">>, fp |-> <<>>], v)

KeptValues(text) == {v \in MatchedValues(text) : InAmountRange(v)}

\* C19: for every text, parse_amount returns the largest of the values the
\* five patterns match that lie in 0.01..10000.00, and no amount when no
\* matched value lies in that range; so the result is never below 0.01 nor
\* above 10000.00, it is 8.37 for "Total: $8.37" and absent for
\* "no numbers here"
C19_LargestInRange ==
    ret.op = "parse_amount"
        => /\ IF KeptValues(ret.text) = {} THEN ret.value = NoAmount
              ELSE /\ ret.value \in KeptValues(ret.text)
                   /\ \A v \in KeptValues(ret.text) : ~DecimalLess(ret.value, v)
           /\ ret.value = NoAmount \/ InAmountRange(ret.value)
           /\ ret.text = Chars("Total: $8.37")
                 => ret.value = [ip |-> <<"8">>, fp |-> <<"3", "7">>]
           /\ ret.text = Chars("no numbers here") => ret.value = NoAmount

\* a text in which the patterns match a value out of the range and two
\* values in it, the first of them not the largest: the largest is returned
C19_Witness ==
    /\ ret.op = "parse_amount"
    /\ ret.value # NoAmount
    /\ \E v \in KeptValues(ret.text) : DecimalLess(v, ret.value)
    /\ ret.value # AmountsOf(lower(ret.text), 1)[1]
    /\ MatchedValues(ret.text) # KeptValues(ret.text)

\* the lines of a text: what lies between its line breaks
LineBreaks(text) == {p \in 1..Len(text) : text[p] = "\n"}

LineBreak(text, n) ==
    CHOOSE p \in LineBreaks(text) : Cardinality({q \in LineBreaks(text) : q < p}) = n - 1

LineOf(text, n) ==
    SubSeq(text,
           IF n = 1 THEN 1 ELSE LineBreak(text, n - 1) + 1,
           IF n = Cardinality(LineBreaks(text)) + 1 THEN Len(text)
           ELSE LineBreak(text, n) - 1)

\* ###-###-#### or 10 consecutive digits somewhere in the line
PhoneShaped(line) ==
    \E p \in 1..Len(line) :
        \/ /\ p + 9 <= Len(line)
           /\ AllDigits(SubSeq(line, p, p + 9))
        \/ /\ p + 11 <= Len(line)
           /\ AllDigits(SubSeq(line, p, p + 2)) /\ line[p + 3] = "-"
           /\ AllDigits(SubSeq(line, p + 4, p + 6)) /\ line[p + 7] = "-"
           /\ AllDigits(SubSeq(line, p + 8, p + 11))

\* the lines of the text that can be a vendor name
VendorLines(text) ==
    {n \in 1..(Cardinality(LineBreaks(text)) + 1) :
        /\ Len(strip(LineOf(text, n))) > 2
        /\ ~IsDigit(strip(LineOf(text, n))[1])
        /\ ~PhoneShaped(strip(LineOf(text, n)))}

\* C20: parse_vendor returns, title-cased, the first of the first 5 lines of
\* the text that after trimming is longer than 2, does not start with a digit
\* and holds no phone-number-shaped token, and "Unknown Vendor" when none of
\* the first 5 lines is such a line, whatever the later lines are
C20_FirstOfFiveLines ==
    ret.op = "parse_vendor"
        => IF VendorLines(ret.text) \cap 1..5 = {} THEN ret.value = VendorDefault
           ELSE ret.value = title(strip(LineOf(ret.text, LeastOf(VendorLines(ret.text)))))

\* a text whose sixth line can be a vendor name and whose first five cannot
C20_Witness ==
    /\ ret.op = "parse_vendor"
    /\ VendorLines(ret.text) # {}
    /\ VendorLines(ret.text) \cap 1..5 = {}
    /\ ret.value = VendorDefault

\* the store that made the last call
Writer == ret.tracker

\* both stores are open on the file and the last call is an add that
\* returned a record
AddAmongTwo ==
    /\ Opened = Trackers
    /\ ret.op = "add"
    /\ ret.raised = NoError

\* C21: with two stores open on the same file and their adds interleaved,
\* each add rewrites the whole file from the list of the store that adds, so
\* after an add the file holds exactly the writer's list, whatever the other
\* store added in the meantime
C21_AsStated ==
    (AddAmongTwo /\ storage_format \in {"csv", "json"})
        => FileHolds(file, expenses[Writer])

\* the calls that add to a store
AddOperations == {"add", "add_from_receipt"}

\* C22: every call of add_expense or add_expense_from_receipt that fails
\* (invalid amount, invalid category, invalid date, missing amount, or a
\* receipt that cannot be processed) leaves the list of every store and the
\* backing file exactly as they were before the call
C22_FailedAddChangesNothing ==
    [][ (ret'.op \in AddOperations /\ ret'.raised # NoError)
            => (expenses' = expenses /\ file' = file) ]_vars

\* a receipt with an amount and a date that add_expense refuses, tried on a
\* store that holds a record and has a file: nothing changed
C22_Witness ==
    /\ ret.op = "add_from_receipt"
    /\ ret.raised = ErrDate
    /\ ret.before # <<>>
    /\ ret.file_before.kind # "absent"
    /\ expenses[ret.tracker] = ret.before
    /\ file = ret.file_before

\* C23: for every receipt text from which an amount is extracted,
\* add_expense_from_receipt without a callback passes the validations of
\* add_expense and adds exactly one record: the extracted amount lies in
\* 0.01..10000, the suggested category is in the category set and the
\* extracted date is a valid date written YYYY-MM-DD
C23_AsStated ==
    (ReceiptProcessed /\ ret.receipt_info.amount # NoAmount /\ ~ret.args[2].given)
        => /\ InAmountRange(ret.receipt_info.amount)
           /\ ret.receipt_info.suggested_category \in CategorySet
           /\ IsoDate(ret.receipt_info.date)
           /\ ReceiptAdded

====
